---------------------------- MODULE Spec2Model ----------------------------
(***************************************************************************)
(* Model of mortality_dashboard_v2.py: a Dash form (Age, Gender, Rural,    *)
(* Predict) whose callback make_prediction builds a one-row feature frame  *)
(* with preprocess and asks the loaded pipeline for the positive-class     *)
(* probability.                                                            *)
(*                                                                         *)
(* Python values are records [t, n, s] (t the type tag), so that the int   *)
(* 0, the string "", and None stay distinct values.                        *)
(* The string U+26A0 U+FE0F (warning sign) of the source is written        *)
(* "<U+26A0 U+FE0F>": the module text is ASCII.                            *)
(***************************************************************************)
EXTENDS Integers, Sequences, FiniteSets, TLC

VARIABLES
    main,      \* position of the module-level code: "import", "serving", "aborted"
    model,     \* the module global `model` (line 9)
    loads,     \* number of joblib.load calls made so far
    page,      \* TRUE once the browser has loaded the layout
    form,      \* current values of the fields age, gender, rural in the browser
    n_clicks,  \* property n_clicks of predict-btn
    output,    \* children of the Div prediction-output
    reqs       \* the invocations of make_prediction, in order of their click

vars == <<main, model, loads, page, form, n_clicks, output, reqs>>

----------------------------------------------------------------------------
(* Bounds and program constants *)

MaxClicks == 2

MinAge == 0
MaxAge == 120
DefaultAge == 60

----------------------------------------------------------------------------
(* Python values *)

PyInt(n) == [t |-> "int", n |-> n, s |-> ""]
PyStr(x) == [t |-> "str", n |-> 0, s |-> x]
PyNone == [t |-> "none", n |-> 0, s |-> ""]

\* Values of the field age: the numbers the widget accepts (min, max, step 1),
\* and None, the value of a number input whose text is empty or not a valid number.
ValidAges == {PyInt(n) : n \in MinAge..MaxAge}
Genders == {PyStr("MALE"), PyStr("FEMALE")}
Rurals == {PyStr("YES"), PyStr("NO")}

DefaultForm == [age |-> PyInt(DefaultAge), gender |-> PyStr("MALE"), rural |-> PyStr("NO")]

\* The ages a user sets in the interactive specification: the default and the
\* cleared field. AllAges, every value of the field, is used where preprocess
\* is checked alone.
FormAges == {PyInt(DefaultAge), PyNone}
AllAges == ValidAges \cup {PyNone}

----------------------------------------------------------------------------
(* The pipeline artifact: an opaque collaborator, given by what the code reads
   of it: named_steps["pre"].feature_names_in_ and predict_proba. *)

ADMISSION == "TYPE_OF_ADMISSION-EMERGENCY/OPD"

\* Columns a fitted pipeline may report, in fit order.
ColumnUniverse == <<"AGE", "GENDER", "RURAL", ADMISSION, "SMOKING", "DM">>

Range(f) == {f[i] : i \in DOMAIN f}
ColsOf(S) == SelectSeq(ColumnUniverse, LAMBDA c : c \in S)

NotLoaded == [loaded |-> FALSE, pre |-> FALSE, attr |-> FALSE, cols |-> <<>>, raises |-> "always"]

\* pre: named_steps has the key "pre"; attr: that step has feature_names_in_;
\* raises: the inputs on which predict_proba raises.
Artifact(pre, attr, S, raises) ==
    [loaded |-> TRUE, pre |-> pre, attr |-> attr, cols |-> ColsOf(S), raises |-> raises]

AllColumns == Range(ColumnUniverse)

\* The artifacts best_model_xgb.pkl may hold in the interactive specification.
Artifacts ==
    { Artifact(TRUE, TRUE, AllColumns, "never"),
      Artifact(TRUE, TRUE, AllColumns, "none_age"),
      Artifact(TRUE, TRUE, {"AGE", "GENDER", "SMOKING"}, "always"),
      Artifact(FALSE, FALSE, {}, "never"),
      Artifact(TRUE, FALSE, {}, "never") }

\* Every expected-column list over the universe, for the specification of preprocess.
PreArtifacts == {Artifact(TRUE, TRUE, S, "never") : S \in SUBSET AllColumns}

----------------------------------------------------------------------------
(* Exceptions: a class and the constructor argument. *)

NoExc == [cls |-> "", arg |-> ""]
Exc(cls, arg) == [cls |-> cls, arg |-> arg]

\* The base class of each built-in exception class the code can meet.
BaseOf(cls) ==
    CASE cls = "KeyError" -> "LookupError"
      [] cls = "LookupError" -> "Exception"
      [] cls = "AttributeError" -> "Exception"
      [] cls = "ValueError" -> "Exception"
      [] cls = "Exception" -> "BaseException"
      [] OTHER -> "object"

RECURSIVE IsSubclass(_, _)
IsSubclass(cls, of) ==
    IF cls = of THEN TRUE
    ELSE IF cls = "object" THEN FALSE
    ELSE IsSubclass(BaseOf(cls), of)

\* str(e): KeyError shows the repr of its key, the others their message.
ExcStr(e) == IF e.cls = "KeyError" THEN "'" \o e.arg \o "'" ELSE e.arg

\* `except Exception as e` of make_prediction.
ExceptClauseOnlyValueError(cls) == IsSubclass(cls, "ValueError")
ExceptClause(cls) == IsSubclass(cls, "Exception")

----------------------------------------------------------------------------
(* preprocess *)

EmptyRow == [col \in {} |-> PyInt(0)]

\* list(model.named_steps["pre"].feature_names_in_)
ExpectedCols(m) ==
    IF ~m.pre THEN [ok |-> FALSE, cols |-> <<>>, exc |-> Exc("KeyError", "pre")]
    ELSE IF ~m.attr
         THEN [ok |-> FALSE, cols |-> <<>>,
               exc |-> Exc("AttributeError", "object has no attribute 'feature_names_in_'")]
    ELSE [ok |-> TRUE, cols |-> m.cols, exc |-> NoExc]

\* base = {col: 0 for col in expected_cols}
InitBaseEmptyString(expected_cols) == [col \in Range(expected_cols) |-> PyStr("")]
InitBase(expected_cols) == [col \in Range(expected_cols) |-> PyInt(0)]

\* if col in base: base[col] = val
FillSlotUnguarded(base, col, val) ==
    [c \in DOMAIN base \cup {col} |-> IF c = col THEN val ELSE base[c]]
FillSlot(base, col, val) ==
    IF col \in DOMAIN base THEN [base EXCEPT ![col] = val] ELSE base

\* The constant written to the admission-type column.
AdmissionValue == PyStr("EMERGENCY")

\* Lines 76-86: the dictionary the DataFrame's single row is made of.
BuildRowCrossed(expected_cols, age, gender, rural) ==
    LET base == InitBase(expected_cols)
        b1 == FillSlot(base, "GENDER", rural)
        b2 == FillSlot(b1, "RURAL", gender)
        b3 == FillSlot(b2, ADMISSION, AdmissionValue)
    IN  FillSlot(b3, "AGE", age)
BuildRowAdmissionFromInput(expected_cols, age, gender, rural) ==
    LET base == InitBase(expected_cols)
        b1 == FillSlot(base, "GENDER", gender)
        b2 == FillSlot(b1, "RURAL", rural)
        b3 == FillSlot(b2, ADMISSION,
                       IF rural = PyStr("YES") THEN PyStr("OPD") ELSE AdmissionValue)
    IN  FillSlot(b3, "AGE", age)
BuildRow(expected_cols, age, gender, rural) ==
    LET base == InitBase(expected_cols)
        b1 == FillSlot(base, "GENDER", gender)
        b2 == FillSlot(b1, "RURAL", rural)
        b3 == FillSlot(b2, ADMISSION, AdmissionValue)
    IN  FillSlot(b3, "AGE", age)

\* preprocess(age, gender, rural), reading the global model: the row, or the
\* exception raised on line 74.
preprocessCachedRow(age, gender, rural) ==
    LET e == ExpectedCols(model)
        built == {i \in DOMAIN reqs : reqs[i].pc \in {"built", "done"} /\ reqs[i].hasdf}
    IN  IF ~e.ok THEN [ok |-> FALSE, row |-> EmptyRow, exc |-> e.exc]
        ELSE IF built # {}
             THEN [ok |-> TRUE, row |-> reqs[CHOOSE i \in built : TRUE].df, exc |-> NoExc]
        ELSE [ok |-> TRUE, row |-> BuildRow(e.cols, age, gender, rural), exc |-> NoExc]
preprocess(age, gender, rural) ==
    LET e == ExpectedCols(model)
    IN  IF ~e.ok THEN [ok |-> FALSE, row |-> EmptyRow, exc |-> e.exc]
        ELSE [ok |-> TRUE, row |-> BuildRow(e.cols, age, gender, rural), exc |-> NoExc]

----------------------------------------------------------------------------
(* model.predict_proba(df)[0, 1] and the formatting of the result *)

Get(df, col) == IF col \in DOMAIN df THEN df[col] ELSE PyInt(0)

\* The positive-class probability in units of 10^-5: a fixed function of the
\* row, standing for the fitted estimator.
Score(df) ==
    LET a == Get(df, "AGE")
        s == 2000 + (IF a.t = "int" THEN 505 * a.n ELSE 0)
                  + (IF Get(df, "GENDER") = PyStr("MALE") THEN 7000 ELSE 0)
                  + (IF Get(df, "RURAL") = PyStr("YES") THEN 3335 ELSE 0)
    IN  IF s > 100000 THEN 100000 ELSE IF s < 0 THEN 0 ELSE s

\* predict_proba raises when the row is not one the fitted steps accept.
PipelineRaises(m, df) ==
    \/ m.raises = "always"
    \/ m.raises = "none_age" /\ Get(df, "AGE").t # "int"

predict_proba(df) ==
    IF PipelineRaises(model, df)
    THEN [ok |-> FALSE, proba |-> 0, exc |-> Exc("ValueError", "Input contains NaN")]
    ELSE [ok |-> TRUE, proba |-> Score(df), exc |-> NoExc]

\* f"{proba:.2%}": the percentage with two decimals, rounded half to even.
Percent2(p) ==
    LET q == p \div 10
        r == p % 10
        h == IF r > 5 \/ (r = 5 /\ q % 2 = 1) THEN q + 1 ELSE q
        frac == h % 100
    IN  ToString(h \div 100) \o "." \o (IF frac < 10 THEN "0" ELSE "") \o ToString(frac) \o "%"

RiskPrefix == "Predicted mortality risk: "
ErrorPrefix == "<U+26A0 U+FE0F> Error: "

FormatRisk(p) == RiskPrefix \o Percent2(p)
FormatError(e) == ErrorPrefix \o ExcStr(e)

----------------------------------------------------------------------------
(* State *)

\* html.Div(id="prediction-output") has no children until a callback returns.
NoOutput == [has |-> FALSE, text |-> ""]
Shown(text) == [has |-> TRUE, text |-> text]

\* prevent_initial_call of the callback.
PreventInitialCallOff == FALSE
PreventInitialCall == TRUE

\* One invocation of make_prediction(n_clicks, age, gender, rural).
\* pc: "recv" (called), "built" (df assigned), "done" (returned a string),
\* "propagated" (left by an exception the except clause did not match).
\* calls counts the calls of predict_proba; afterError records that, when the
\* invocation began, an earlier one had already returned the error string.
NewRequest(n, f) ==
    [n |-> n, age |-> f.age, gender |-> f.gender, rural |-> f.rural,
     pc |-> "recv", hasdf |-> FALSE, df |-> EmptyRow,
     res |-> "", err |-> FALSE, calls |-> 0,
     afterError |-> \E j \in DOMAIN reqs : reqs[j].pc = "done" /\ reqs[j].err]

Init ==
    /\ main = "import"
    /\ model = NotLoaded
    /\ loads = 0
    /\ page = FALSE
    /\ form = DefaultForm
    /\ n_clicks = 0
    /\ output = NoOutput
    /\ reqs = <<>>

----------------------------------------------------------------------------
(* Process start: lines 9-107 *)

\* model = joblib.load("best_model_xgb.pkl") returns; the rest of the module
\* runs and the server starts.
LoadModel ==
    /\ main = "import"
    /\ \E a \in Artifacts : model' = a
    /\ loads' = loads + 1
    /\ main' = "serving"
    /\ UNCHANGED <<page, form, n_clicks, output, reqs>>

\* joblib.load raises: the import, and with it the process, ends.
LoadFails ==
    /\ main = "import"
    /\ loads' = loads + 1
    /\ main' = "aborted"
    /\ UNCHANGED <<model, page, form, n_clicks, output, reqs>>

----------------------------------------------------------------------------
(* The browser: app.layout and the callback's trigger *)

\* The page is served: fields at their initial values, no output. Dash calls
\* every callback once at load unless prevent_initial_call is set.
PageLoad ==
    /\ main = "serving"
    /\ ~page
    /\ page' = TRUE
    /\ form' = DefaultForm
    /\ output' = NoOutput
    /\ n_clicks' = 0
    /\ reqs' = IF PreventInitialCall THEN reqs
               ELSE Append(reqs, NewRequest(0, DefaultForm))
    /\ UNCHANGED <<main, model, loads>>

\* The fields are State, not Input, of the callback: a change calls nothing.
SetAge(v) ==
    /\ page
    /\ v # form.age
    /\ form' = [form EXCEPT !.age = v]
    /\ UNCHANGED <<main, model, loads, page, n_clicks, output, reqs>>

SetGender(v) ==
    /\ page
    /\ v # form.gender
    /\ form' = [form EXCEPT !.gender = v]
    /\ UNCHANGED <<main, model, loads, page, n_clicks, output, reqs>>

SetRural(v) ==
    /\ page
    /\ v # form.rural
    /\ form' = [form EXCEPT !.rural = v]
    /\ UNCHANGED <<main, model, loads, page, n_clicks, output, reqs>>

\* A click on Predict: n_clicks changes, and the callback is called with the
\* fields' current values.
Click ==
    /\ main = "serving"
    /\ page
    /\ n_clicks < MaxClicks
    /\ n_clicks' = n_clicks + 1
    /\ reqs' = Append(reqs, NewRequest(n_clicks + 1, form))
    /\ UNCHANGED <<main, model, loads, page, form, output>>

----------------------------------------------------------------------------
(* make_prediction: lines 98-104 *)

\* return <string>: the invocation ends and the string becomes the children of
\* prediction-output. rq is reqs with the invocation's earlier steps applied.
Return(rq, i, text, isErr) ==
    /\ reqs' = [rq EXCEPT ![i].pc = "done", ![i].res = text, ![i].err = isErr]
    /\ output' = Shown(text)

\* An exception raised inside the try block: lines 103-104.
RaisedDropsModel(rq, i, e) ==
    /\ Return(rq, i, FormatError(e), TRUE)
    /\ model' = NotLoaded
Raised(rq, i, e) ==
    /\ IF ExceptClause(e.cls)
       THEN Return(rq, i, FormatError(e), TRUE)
       ELSE /\ reqs' = [rq EXCEPT ![i].pc = "propagated"]
            /\ output' = output
    /\ model' = model

\* df = preprocess(age, gender, rural)
PreprocessReloads(i) ==
    /\ main = "serving"
    /\ i \in DOMAIN reqs
    /\ reqs[i].pc = "recv"
    /\ LET r == preprocess(reqs[i].age, reqs[i].gender, reqs[i].rural)
       IN  IF r.ok
           THEN /\ reqs' = [reqs EXCEPT ![i].pc = "built", ![i].hasdf = TRUE,
                                        ![i].df = r.row]
                /\ output' = output
                /\ \E a \in Artifacts : model' = a
           ELSE Raised(reqs, i, r.exc)
    /\ loads' = loads + 1
    /\ UNCHANGED <<main, page, form, n_clicks>>
Preprocess(i) ==
    /\ main = "serving"
    /\ i \in DOMAIN reqs
    /\ reqs[i].pc = "recv"
    /\ LET r == preprocess(reqs[i].age, reqs[i].gender, reqs[i].rural)
       IN  IF r.ok
           THEN /\ reqs' = [reqs EXCEPT ![i].pc = "built", ![i].hasdf = TRUE,
                                        ![i].df = r.row]
                /\ output' = output
                /\ model' = model
           ELSE Raised(reqs, i, r.exc)
    /\ UNCHANGED <<main, loads, page, form, n_clicks>>

\* proba = model.predict_proba(df)[0, 1]
\* return f"Predicted mortality risk: {proba:.2%}"
Predict(i) ==
    /\ main = "serving"
    /\ i \in DOMAIN reqs
    /\ reqs[i].pc = "built"
    /\ LET r == predict_proba(reqs[i].df)
           called == [reqs EXCEPT ![i].calls = @ + 1]
       IN  IF r.ok
           THEN /\ Return(called, i, FormatRisk(r.proba), FALSE)
                /\ model' = model
           ELSE Raised(called, i, r.exc)
    /\ UNCHANGED <<main, loads, page, form, n_clicks>>

----------------------------------------------------------------------------
(* Specifications *)

\* The running application: the process starts, a browser loads the page, the
\* user edits the fields and clicks; the server runs the invocations of
\* make_prediction interleaved (the development server is threaded).
Next ==
    \/ LoadModel
    \/ LoadFails
    \/ PageLoad
    \/ \E v \in FormAges : SetAge(v)
    \/ \E v \in Genders : SetGender(v)
    \/ \E v \in Rurals : SetRural(v)
    \/ Click
    \/ \E i \in 1..MaxClicks : Preprocess(i)
    \/ \E i \in 1..MaxClicks : Predict(i)

Spec == Init /\ [][Next]_vars

\* preprocess alone: one call, on every expected-column list over the universe
\* and every request the form can hold.
InitPre ==
    /\ main = "serving"
    /\ model \in PreArtifacts
    /\ loads = 1
    /\ page = TRUE
    /\ form \in [age : AllAges, gender : Genders, rural : Rurals]
    /\ n_clicks = 0
    /\ output = NoOutput
    /\ reqs = <<>>

ClickOnce == n_clicks = 0 /\ Click

NextPre ==
    \/ ClickOnce
    \/ Preprocess(1)

SpecPre == InitPre /\ [][NextPre]_vars

----------------------------------------------------------------------------
(* Vocabulary of the properties *)

Missing == [t |-> "missing", n |-> 0, s |-> ""]
Val(df, col) == IF col \in DOMAIN df THEN df[col] ELSE Missing

StartsWith(str, prefix) ==
    /\ Len(str) >= Len(prefix)
    /\ SubSeq(str, 1, Len(prefix)) = prefix

Expected == Range(model.cols)
KnownSlots == {"AGE", "GENDER", "RURAL", "TYPE_OF_ADMISSION-EMERGENCY/OPD"}

ValidRequest(r) ==
    /\ r.age.t = "int" /\ r.age.n >= 0 /\ r.age.n <= 120
    /\ r.gender \in {PyStr("MALE"), PyStr("FEMALE")}
    /\ r.rural \in {PyStr("YES"), PyStr("NO")}

SameInputs(a, b) == a.age = b.age /\ a.gender = b.gender /\ a.rural = b.rural

\* The row r.df holds what the request r itself supplied, slot by slot.
OwnRow(r) ==
    /\ DOMAIN r.df = Expected
    /\ \A c \in DOMAIN r.df :
          r.df[c] = CASE c = "AGE" -> r.age
                      [] c = "GENDER" -> r.gender
                      [] c = "RURAL" -> r.rural
                      [] c = "TYPE_OF_ADMISSION-EMERGENCY/OPD" -> PyStr("EMERGENCY")
                      [] OTHER -> PyInt(0)

----------------------------------------------------------------------------
(* Properties of preprocess, under SpecPre *)

\* C1: for every expected-column list and every valid request, the row
\* returned by preprocess has exactly the expected columns as its keys.
C1_KeySetIsExpectedColumns ==
    \A i \in DOMAIN reqs :
        (reqs[i].hasdf /\ ValidRequest(reqs[i])) => DOMAIN reqs[i].df = Expected

C1_Witness ==
    \E i \in DOMAIN reqs :
        /\ reqs[i].hasdf /\ ValidRequest(reqs[i])
        /\ Expected = {"GENDER", "SMOKING"}
        /\ DOMAIN reqs[i].df = {"GENDER", "SMOKING"}

\* C3: whenever the admission-type column is expected, its value in the row is
\* "EMERGENCY", whatever age, gender and rural are.
C3_AdmissionIsEmergency ==
    \A i \in DOMAIN reqs :
        (reqs[i].hasdf /\ "TYPE_OF_ADMISSION-EMERGENCY/OPD" \in Expected)
            => Val(reqs[i].df, "TYPE_OF_ADMISSION-EMERGENCY/OPD") = PyStr("EMERGENCY")

C3_Witness ==
    \E i \in DOMAIN reqs :
        /\ reqs[i].hasdf
        /\ reqs[i].rural = PyStr("YES") /\ reqs[i].age = PyNone
        /\ Val(reqs[i].df, "TYPE_OF_ADMISSION-EMERGENCY/OPD") = PyStr("EMERGENCY")

C5_SuppliedValuesInTheirSlots ==
    \A i \in DOMAIN reqs :
        reqs[i].hasdf =>
            /\ "AGE" \in Expected => Val(reqs[i].df, "AGE") = reqs[i].age
            /\ "GENDER" \in Expected => Val(reqs[i].df, "GENDER") = reqs[i].gender
            /\ "RURAL" \in Expected => Val(reqs[i].df, "RURAL") = reqs[i].rural

C5_Witness ==
    \E i \in DOMAIN reqs :
        /\ reqs[i].hasdf
        /\ reqs[i].age = PyInt(60) /\ reqs[i].gender = PyStr("MALE")
        /\ reqs[i].rural = PyStr("NO")
        /\ Val(reqs[i].df, "AGE") = PyInt(60)
        /\ Val(reqs[i].df, "GENDER") = PyStr("MALE")
        /\ Val(reqs[i].df, "RURAL") = PyStr("NO")
        /\ Val(reqs[i].df, "TYPE_OF_ADMISSION-EMERGENCY/OPD") = PyStr("EMERGENCY")
        /\ Val(reqs[i].df, "SMOKING") = PyInt(0)

----------------------------------------------------------------------------
(* Properties of make_prediction and of the running application, under Spec *)

\* C2: an exception raised while the row is built (the expected columns cannot
\* be obtained) or by predict_proba never leaves make_prediction: the
\* invocation returns the error prefix followed by the exception's message.
C2_ExceptionsBecomeErrorString ==
    \A i \in DOMAIN reqs :
        /\ reqs[i].pc # "propagated"
        /\ reqs[i].pc = "done" =>
            /\ ~model.pre => reqs[i].res = "<U+26A0 U+FE0F> Error: 'pre'"
            /\ (model.pre /\ ~model.attr) =>
                  reqs[i].res =
                     "<U+26A0 U+FE0F> Error: object has no attribute 'feature_names_in_'"
            /\ (reqs[i].hasdf /\ PipelineRaises(model, reqs[i].df)) =>
                  reqs[i].res = "<U+26A0 U+FE0F> Error: Input contains NaN"
            /\ reqs[i].err => StartsWith(reqs[i].res, "<U+26A0 U+FE0F> Error:")

C2_Witness ==
    \E i \in DOMAIN reqs :
        /\ reqs[i].pc = "done" /\ ~reqs[i].hasdf
        /\ reqs[i].res = "<U+26A0 U+FE0F> Error: 'pre'"
        /\ output = Shown(reqs[i].res)

\* C6: the values make_prediction hands to preprocess and to the pipeline are
\* validated: age an integer in 0..120, gender MALE or FEMALE, rural YES or NO.
C6_OnlyValidatedFieldsReachPreprocess ==
    \A i \in DOMAIN reqs :
        /\ reqs[i].pc # "recv" => ValidRequest(reqs[i])
        /\ (reqs[i].calls > 0 /\ "AGE" \in DOMAIN reqs[i].df) =>
              /\ reqs[i].df["AGE"].t = "int"
              /\ reqs[i].df["AGE"].n \in 0..120

\* C7: the row and the string of an invocation depend on its own age, gender
\* and rural only: every row holds its own request's values, invocations with
\* equal inputs have equal rows and equal results whatever ran before or
\* beside them, and a row, once built, and a result, once returned, never change.
C7_StateInv ==
    /\ \A i \in DOMAIN reqs : reqs[i].hasdf => OwnRow(reqs[i])
    /\ \A i, j \in DOMAIN reqs :
          SameInputs(reqs[i], reqs[j]) =>
              /\ (reqs[i].hasdf /\ reqs[j].hasdf) => reqs[i].df = reqs[j].df
              /\ (reqs[i].pc = "done" /\ reqs[j].pc = "done") =>
                     reqs[i].res = reqs[j].res
C7_Step ==
    \A i \in DOMAIN reqs :
        /\ i \in DOMAIN reqs'
        /\ SameInputs(reqs'[i], reqs[i])
        /\ reqs[i].hasdf => (reqs'[i].hasdf /\ reqs'[i].df = reqs[i].df)
        /\ reqs[i].pc = "done" => reqs'[i] = reqs[i]
C7_Independent == []C7_StateInv /\ [][C7_Step]_vars

C7_Witness ==
    /\ Len(reqs) = 2
    /\ reqs[1].pc = "built" /\ reqs[2].pc = "done"
    /\ reqs[1].age # reqs[2].age /\ reqs[1].gender # reqs[2].gender
    /\ OwnRow(reqs[1]) /\ OwnRow(reqs[2])
    /\ "AGE" \in Expected

\* C8: the pipeline is loaded exactly once, before any invocation, and no step
\* of preprocess or make_prediction reloads or changes the model or its
\* expected-column list afterwards.
C8_StateInv ==
    /\ loads <= 1
    /\ (Len(reqs) > 0 \/ page) => (main = "serving" /\ loads = 1 /\ model.loaded)
C8_Step ==
    main = "serving" => (model' = model /\ loads' = loads /\ main' = "serving")
C8_LoadedOnceReadOnly == []C8_StateInv /\ [][C8_Step]_vars

C8_Witness ==
    /\ loads = 1
    /\ model = Artifact(TRUE, TRUE, AllColumns, "none_age")
    /\ \E i, j \in DOMAIN reqs :
          /\ reqs[i].pc = "done" /\ reqs[i].err
          /\ reqs[j].pc = "done" /\ ~reqs[j].err

\* C9: a prediction is computed only for a click, from the field values
\* current at that click: none at page load, none when a field changes, and
\* per click one invocation, at most one call of the pipeline, one string.
C9_StateInv ==
    /\ Len(reqs) = n_clicks
    /\ n_clicks = 0 => output = NoOutput
    /\ \A i \in DOMAIN reqs :
          /\ reqs[i].n = i
          /\ reqs[i].calls <= 1
          /\ reqs[i].pc = "done" => (reqs[i].res # "" /\ reqs[i].calls = IF reqs[i].hasdf THEN 1 ELSE 0)
          /\ reqs[i].pc # "done" => reqs[i].res = ""
C9_Step ==
    /\ form' # form => (output' = output /\ reqs' = reqs)
    /\ reqs' # reqs =>
          \/ /\ n_clicks' = n_clicks + 1
             /\ reqs' = Append(reqs, reqs'[Len(reqs')])
             /\ reqs'[Len(reqs')].pc = "recv"
             /\ reqs'[Len(reqs')].age = form.age
             /\ reqs'[Len(reqs')].gender = form.gender
             /\ reqs'[Len(reqs')].rural = form.rural
             /\ output' = output
          \/ /\ n_clicks' = n_clicks
             /\ Len(reqs') = Len(reqs)
             /\ \E i \in DOMAIN reqs :
                   /\ \A j \in DOMAIN reqs : j # i => reqs'[j] = reqs[j]
                   /\ reqs[i].pc # "done"
                   /\ output' # output => (reqs'[i].pc = "done" /\ output' = Shown(reqs'[i].res))
    /\ reqs' = reqs => output' = output
C9_OnlyOnClick == []C9_StateInv /\ [][C9_Step]_vars

C9_Witness ==
    \E i \in DOMAIN reqs :
        /\ reqs[i].pc = "done" /\ reqs[i].err /\ reqs[i].calls = 1
        /\ output = Shown(reqs[i].res)
        /\ form.age # reqs[i].age /\ form.gender # reqs[i].gender
        /\ n_clicks = i

\* C10: an invocation that returned the error string leaves the process
\* serving with its model, and a later invocation on which the pipeline does
\* not raise returns the risk string of its own row, the same string an
\* invocation with the same inputs returns when no failure came before it.
C10_FailureLeavesNothingBehind ==
    /\ (\E j \in DOMAIN reqs : reqs[j].pc = "done" /\ reqs[j].err) =>
          /\ main = "serving"
          /\ model \in Artifacts
          /\ n_clicks < MaxClicks => ENABLED Click
    /\ \A i \in DOMAIN reqs :
          (reqs[i].pc = "done" /\ reqs[i].afterError) =>
              /\ (model.pre /\ model.attr /\ reqs[i].hasdf
                     /\ ~PipelineRaises(model, reqs[i].df)) =>
                    /\ ~reqs[i].err
                    /\ reqs[i].res =
                          "Predicted mortality risk: " \o Percent2(Score(reqs[i].df))
              /\ \A j \in DOMAIN reqs :
                    (reqs[j].pc = "done" /\ ~reqs[j].afterError
                        /\ SameInputs(reqs[i], reqs[j])) => reqs[i].res = reqs[j].res

C10_Witness ==
    \E i, j \in DOMAIN reqs :
        /\ j < i
        /\ reqs[j].pc = "done" /\ reqs[j].err
        /\ reqs[i].pc = "done" /\ reqs[i].afterError /\ ~reqs[i].err
        /\ StartsWith(reqs[i].res, "Predicted mortality risk: ")
        /\ main = "serving"

=============================================================================
